---- MODULE Spec2Model ----
(***************************************************************************)
(* Model of the moonshine streaming host: the session loop                 *)
(* (moonshine/src/session/mod.rs), the control stream                      *)
(* (src/session/stream/control/mod.rs), the pairing handlers               *)
(* (moonshine/src/webserver/pairing.rs) and the RTP audio stream           *)
(* (moonshine/src/rtsp/session/audio_stream.rs).                           *)
(*                                                                         *)
(* Spec      : one session and the control streams it starts.              *)
(* CtlSpec   : one control stream against every datagram of the client.    *)
(* FairSpec  : a session started once, with the fairness the executor     *)
(*             gives the tasks.                                            *)
(* PairSpec  : the HTTP pairing handlers over the clients map.             *)
(* PairFairSpec : PairSpec with the waits of get_server_cert scheduled.    *)
(* LockSpec  : the pairing handlers statement by statement on concurrent   *)
(*             tasks, with the mutex of the clients map.                   *)
(* RtpSpec   : the RTP audio stream and the peers of its socket.           *)
(***************************************************************************)
EXTENDS Integers, Sequences, FiniteSets, TLC

(***************************************************************************)
(* Bounds of the model.                                                    *)
(***************************************************************************)
\* StartStream commands a run may send (one stream generation each).
MaxStarts == 2
\* Session commands sent over the whole run.
MaxCmds == 3
\* Datagrams in flight towards the control port.
MaxQueue == 1
\* config.stream_timeout, in ticks of the model's clock.
StreamTimeout == 1
\* Session handles (the original and its clones).
MaxHandles == 2

(***************************************************************************)
(* Program constants.                                                      *)
(***************************************************************************)
ENCRYPTION_TAG_LENGTH == 16
MINIMUM_ENCRYPTED_LENGTH == 4 + ENCRYPTION_TAG_LENGTH + 4
\* mpsc::channel(10), for the session and for the control stream.
SessionChannelCapacity == 10
ControlChannelCapacity == 10

T_Encrypted == 1
T_Termination == 256
T_RumbleData == 267
T_Ping == 512
T_LossStats == 513
T_FrameStats == 516
T_InputData == 518
T_InvalidateReferenceFrames == 769
T_RequestIdrFrame == 770
T_StartA == 773
T_StartB == 775

\* ControlMessageType::try_from: the variant a u16 names, "" for none.
ControlMessageType(v) ==
    CASE v = T_Encrypted -> "Encrypted"
      [] v = T_Ping -> "Ping"
      [] v = T_Termination -> "Termination"
      [] v = T_RumbleData -> "RumbleData"
      [] v = T_LossStats -> "LossStats"
      [] v = T_FrameStats -> "FrameStats"
      [] v = T_InputData -> "InputData"
      [] v = T_InvalidateReferenceFrames -> "InvalidateReferenceFrames"
      [] v = T_RequestIdrFrame -> "RequestIdrFrame"
      [] v = T_StartA -> "StartA"
      [] v = T_StartB -> "StartB"
      [] OTHER -> ""

(***************************************************************************)
(* Byte buffers are sequences of 0..255, indexed from 1: Rust's            *)
(* buffer[a..b] is SubSeq(buffer, a + 1, b).                               *)
(***************************************************************************)
u16_from_le_bytes(b, i) == b[i + 1] + 256 * b[i + 2]
u32_from_le_bytes(b, i) ==
    b[i + 1] + 256 * b[i + 2] + 65536 * b[i + 3] + 16777216 * b[i + 4]
u32_from_be_bytes(b, i) ==
    16777216 * b[i + 1] + 65536 * b[i + 2] + 256 * b[i + 3] + b[i + 4]
u16_to_le_bytes(v) == <<v % 256, (v \div 256) % 256>>
u32_to_le_bytes(v) ==
    <<v % 256, (v \div 256) % 256, (v \div 65536) % 256, (v \div 16777216) % 256>>
u32_to_be_bytes(v) ==
    <<(v \div 16777216) % 256, (v \div 65536) % 256, (v \div 256) % 256, v % 256>>

RECURSIVE SumBytes(_)
SumBytes(s) == IF s = <<>> THEN 0 ELSE (Head(s) + SumBytes(Tail(s))) % 256

\* Parse results that are not messages.
ParseErr == [kind |-> "Err"]
ParsePanic == [kind |-> "Panic"]

\* ControlMessage::from_bytes. A slice that reaches past the buffer panics.
from_bytes(buffer) ==
    IF Len(buffer) < 4 THEN ParseErr
    ELSE LET length == u16_from_le_bytes(buffer, 2)
             name == ControlMessageType(u16_from_le_bytes(buffer, 0))
         IN  IF length # Len(buffer) - 4 THEN ParseErr
             ELSE IF name = "" THEN ParseErr
             ELSE IF name = "Encrypted" THEN
                 IF Len(buffer) < MINIMUM_ENCRYPTED_LENGTH THEN ParseErr
                 ELSE IF length < MINIMUM_ENCRYPTED_LENGTH THEN ParseErr
                 ELSE [kind |-> "Encrypted",
                       sequence_number |-> u32_from_le_bytes(buffer, 4),
                       tag |-> SubSeq(buffer, 9, 8 + ENCRYPTION_TAG_LENGTH),
                       payload |-> SubSeq(buffer, 9 + ENCRYPTION_TAG_LENGTH, Len(buffer))]
             ELSE IF name = "InputData" THEN
                 IF Len(buffer) < 8 THEN ParsePanic
                 ELSE IF u32_from_be_bytes(buffer, 4) # Len(buffer) - 8 THEN ParseErr
                 ELSE [kind |-> "InputData", payload |-> SubSeq(buffer, 9, Len(buffer))]
             ELSE [kind |-> name]

(***************************************************************************)
(* AES-128-GCM, reduced to what the control stream relies on: the          *)
(* ciphertext has the length of the plaintext, decryption inverts          *)
(* encryption under the same key and IV, and the tag binds key, IV and     *)
(* ciphertext, so another key or an altered byte fails the tag check.      *)
(* A key is a small number standing for 16 bytes.                          *)
(***************************************************************************)
KeyStream(key, iv0, i) == (key * 7 + iv0 * 3 + i) % 256
GcmTag(key, iv0, ct) ==
    [i \in 1..ENCRYPTION_TAG_LENGTH |-> (SumBytes(ct) + key * 31 + iv0 * 5 + i) % 256]
GcmEncrypt(key, iv0, pt) ==
    [i \in 1..Len(pt) |-> (pt[i] + KeyStream(key, iv0, i)) % 256]
GcmDecrypt(key, iv0, ct) ==
    [i \in 1..Len(ct) |-> (ct[i] + 256 - KeyStream(key, iv0, i)) % 256]

\* initialization_vector[0] = message.sequence_number as u8
InitializationVector0(sequence_number) == sequence_number % 256

\* openssl::symm::decrypt_aead: the plaintext, or an error on a tag mismatch.
decrypt_aead(key, iv0, payload, tag) ==
    IF tag = GcmTag(key, iv0, payload)
    THEN [ok |-> TRUE, data |-> GcmDecrypt(key, iv0, payload)]
    ELSE [ok |-> FALSE, data |-> <<>>]

(***************************************************************************)
(* What a client can put on the wire.                                      *)
(***************************************************************************)
\* Session keys: remote_input_key values a run can use.
Keys == {1, 2}
InitialKey == 1

PlainMessage(type, body) ==
    u16_to_le_bytes(type) \o u16_to_le_bytes(Len(body)) \o body
EnvelopeWithTag(sequence_number, tag, ciphertext) ==
    PlainMessage(T_Encrypted, u32_to_le_bytes(sequence_number) \o tag \o ciphertext)
EncryptedMessage(key, sequence_number, plaintext) ==
    LET iv0 == InitializationVector0(sequence_number)
        ct == GcmEncrypt(key, iv0, plaintext)
    IN  EnvelopeWithTag(sequence_number, GcmTag(key, iv0, ct), ct)

MsgPing == PlainMessage(T_Ping, <<>>)
MsgStartB == PlainMessage(T_StartB, <<>>)
MsgRequestIdr == PlainMessage(T_RequestIdrFrame, <<>>)
MsgTermination == PlainMessage(T_Termination, <<>>)
MsgInput == PlainMessage(T_InputData, u32_to_be_bytes(2) \o <<7, 9>>)
\* Malformed: two bytes; declared length 1 over an empty body; type 2.
MsgShort == <<0, 2>>
MsgBadLength == u16_to_le_bytes(T_Ping) \o u16_to_le_bytes(1)
MsgUnknownType == PlainMessage(2, <<>>)
\* InputData whose length prefix is wrong, and one with no prefix at all.
MsgInputBadPrefix == PlainMessage(T_InputData, u32_to_be_bytes(5) \o <<7, 9>>)
MsgInputHeaderOnly == PlainMessage(T_InputData, <<>>)
\* An envelope with a tag that matches no key, and one below the minimum.
MsgBadTag ==
    EnvelopeWithTag(3, [i \in 1..ENCRYPTION_TAG_LENGTH |-> 0],
                    GcmEncrypt(InitialKey, 3, MsgPing))
MsgEnvelopeShort == PlainMessage(T_Encrypted, <<3, 0, 0, 0>>)

PlainDatagrams ==
    {MsgPing, MsgStartB, MsgRequestIdr, MsgTermination, MsgInput, MsgShort,
     MsgBadLength, MsgUnknownType, MsgInputBadPrefix, MsgInputHeaderOnly}
EncryptedDatagrams ==
    {EncryptedMessage(k, 3, m) : k \in Keys, m \in {MsgPing, MsgStartB}}
    \cup {EncryptedMessage(InitialKey, 259, m) :
            m \in {MsgUnknownType, MsgInputHeaderOnly,
                   EncryptedMessage(InitialKey, 4, MsgPing)}}
    \cup {MsgBadTag, MsgEnvelopeShort}
Datagrams == PlainDatagrams \cup EncryptedDatagrams

(***************************************************************************)
(* State.                                                                  *)
(***************************************************************************)
Gens == 1..MaxStarts
HandleIds == 1..MaxHandles

VARIABLES
    \* Session handles (Session and its clones): the live ones, and the
    \* context.keys each carries.
    handles, hkeys,
    \* The session's command channel and the number of commands sent so far.
    cmdq, ncmds,
    \* SessionInner::run: "recv" in the loop, "done" after it.
    sessPc,
    \* session_context.keys of the loop.
    sessKeys,
    \* self.video_stream, self.audio_stream, self.control_stream: the
    \* generation of the stream held, 0 for None.
    video_stream, audio_stream, control_stream,
    \* stop_signal: whether the shutdown has been triggered.
    shutdown,
    \* Stream generations created so far.
    gen,
    \* Per generation, the control stream task: pc (its place), keys
    \* (context.keys), remaining (stop_deadline - now), ev (the outcome of
    \* the event it handled last), exit (why run ended) and q (its command
    \* channel).
    ctl,
    \* Per generation, the video and audio streams and the keys the audio
    \* stream holds.
    video, audio, audioKeys,
    \* Datagrams received by the ENet host and not yet serviced.
    netq

handleVars == <<handles, hkeys>>
sessVars == <<cmdq, ncmds, sessPc, sessKeys, video_stream, audio_stream, control_stream, gen>>
mediaVars == <<video, audio, audioKeys>>
streamVars == <<handleVars, sessVars, shutdown, ctl, mediaVars, netq>>

\* The webserver's pairing state (webserver/pairing.rs).
VARIABLES
    \* The clients map: uniqueid -> Client, NoClient for a missing key.
    clients,
    \* get_server_cert handlers in flight: pc is "idle", "inserted" (the
    \* record is in the map, notified() not yet called), "waiting" or
    \* "woken"; id is the uniqueid; current tells whether the Notify the
    \* handler holds is still the one of the record in the map.
    waiters,
    \* The request that the last step of a handler answered, NoRequest when
    \* the step answered none: its phase, uniqueid, decoded value (arg),
    \* status (200, 400, or 0 for a handler that panicked) and response body.
    last

pairVars == <<clients, waiters, last>>

\* The clients-map mutex and the handler tasks that take it, for the
\* handlers run statement by statement.
VARIABLES
    \* The task that holds the MutexGuard of clients, 0 when it is free.
    mutex,
    \* Per handler task: pc ("idle", "lock" when it is at
    \* clients.lock().await, then its place inside the critical section),
    \* the phase it handles, the uniqueid and the decoded value.
    tasks

lockVars == <<mutex, tasks>>

\* The RTP audio stream (rtsp/session/audio_stream.rs).
VARIABLES
    \* "none" before AudioStream::new, then the position of run: "recv",
    \* "frame", "receive" (the loop of encode at receive_packet), "raw",
    \* "build" and "shard" (send_packet: first send_to, the shards, the
    \* send_to of each shard), "sleep", "failed" (run returned Err) or
    \* "panicked".
    rtpPc,
    \* Local client_address of run: 0 for None, else the address.
    client_address,
    \* Datagrams queued at the audio socket, not yet received.
    socket_in,
    \* The bytes of self.packet, the encoded packet being sent.
    packet_data,
    \* The Vec shards of send_packet.
    shards,
    \* index of the shard that the for loop of send_packet sends next.
    shard_index,
    \* Datagrams given to socket.send_to for the current packet, in order.
    socket_out,
    sequence_number,
    timestamp,
    \* config.packet_duration.
    packet_duration,
    \* Number of packets the encoder has produced.
    npackets,
    \* What the last receive_packet of encode returned: "" (none yet), "ok",
    \* "again" (EAGAIN), "eof" (AVERROR_EOF) or "error".
    receive_result,
    \* codec.supported_samplerates: NullList or the rates of the list.
    supported_samplerates,
    \* The sample rate given to the codec context.
    sample_rate

rtpVars == <<rtpPc, client_address, socket_in, packet_data, shards, shard_index, socket_out,
             sequence_number, timestamp, packet_duration, npackets, receive_result,
             supported_samplerates, sample_rate>>

NoEvent == [out |-> "None", msg |-> "", enc |-> FALSE]

StartStreamCmd == [op |-> "StartStream", keys |-> 0]
StopStreamCmd == [op |-> "StopStream", keys |-> 0]
UpdateKeysCmd(k) == [op |-> "UpdateKeys", keys |-> k]

\* A control stream that was never spawned.
NoControl ==
    [pc |-> "none", keys |-> 0, remaining |-> 0, ev |-> NoEvent, exit |-> "", q |-> <<>>]

\* The control stream task of generation g is spawned and has not ended.
CtlRunning(g) == ctl[g].pc \in {"init", "top", "service"}
\* Its loop is running (the host is bound).
CtlInLoop(g) == ctl[g].pc \in {"top", "service"}
\* The stream of generation g has been created and has not exited.
MediaRunning(m, g) == m[g] \in {"idle", "started"}

RECURSIVE CountStarts(_)
CountStarts(q) ==
    IF q = <<>> THEN 0
    ELSE (IF Head(q).op = "StartStream" THEN 1 ELSE 0) + CountStarts(Tail(q))

StreamInit ==
    /\ handles = {1}
    /\ hkeys = [h \in HandleIds |-> InitialKey]
    /\ cmdq = <<>>
    /\ ncmds = 0
    /\ sessPc = "recv"
    /\ sessKeys = InitialKey
    /\ video_stream = 0
    /\ audio_stream = 0
    /\ control_stream = 0
    /\ shutdown = FALSE
    /\ gen = 0
    /\ ctl = [g \in Gens |-> NoControl]
    /\ video = [g \in Gens |-> "none"]
    /\ audio = [g \in Gens |-> "none"]
    /\ audioKeys = [g \in Gens |-> 0]
    /\ netq = <<>>

(***************************************************************************)
(* Session handles.                                                        *)
(***************************************************************************)
\* #[derive(Clone)] on Session: the clone copies command_tx and context.
SessionClone(h, h2) ==
    /\ h \in handles
    /\ h2 \notin handles
    /\ handles' = handles \cup {h2}
    /\ hkeys' = [hkeys EXCEPT ![h2] = hkeys[h]]
    /\ UNCHANGED <<pairVars, lockVars, rtpVars, sessVars, shutdown, ctl, mediaVars, netq>>

\* Dropping a handle drops its command_tx.
SessionDrop(h) ==
    /\ h \in handles
    /\ handles' = handles \ {h}
    /\ UNCHANGED <<pairVars, lockVars, rtpVars, hkeys, sessVars, shutdown, ctl, mediaVars, netq>>

\* command_tx.send(command).await: waits while the channel is full.
SendCommand(h, command) ==
    /\ h \in handles
    /\ ncmds < MaxCmds
    /\ Len(cmdq) < SessionChannelCapacity
    /\ cmdq' = Append(cmdq, command)
    /\ ncmds' = ncmds + 1
    /\ UNCHANGED <<pairVars, lockVars, rtpVars, handleVars, sessPc, sessKeys, video_stream, audio_stream,
                   control_stream, gen, shutdown, ctl, mediaVars, netq>>

\* Session::start_stream, for a run that sends at most n StartStream.
StartStreamUpTo(h, n) ==
    /\ gen + CountStarts(cmdq) < n
    /\ SendCommand(h, StartStreamCmd)

start_stream(h) == StartStreamUpTo(h, MaxStarts)

stop_stream(h) == SendCommand(h, StopStreamCmd)

\* Session::update_keys takes &self and leaves self.context as it is.
update_keys(h, k) == SendCommand(h, UpdateKeysCmd(k))

(***************************************************************************)
(* The video and audio streams of a session. Their code is not part of     *)
(* the sources at hand; they are modelled from the specification: a stream *)
(* is created idle, is started by the control stream, takes the keys it is *)
(* sent, and exits at its next suspension point once the shared shutdown   *)
(* is triggered.                                                           *)
(***************************************************************************)
\* VideoStream::new / AudioStream::new with a clone of stop_signal.
MediaNew(m, g) == [m EXCEPT ![g] = "idle"]
\* A command sent to a stream that has exited fails.
MediaCallOk(m, g) == MediaRunning(m, g)
MediaStart(m, g) == [m EXCEPT ![g] = "started"]
\* AudioStream::start(keys) and AudioStream::update_keys(keys).
AudioTakeKeys(g, k) ==
    IF MediaCallOk(audio, g) THEN [audioKeys EXCEPT ![g] = k] ELSE audioKeys

\* A stream observes the triggered shutdown and exits.
VideoObserveShutdown(g) ==
    /\ shutdown
    /\ MediaRunning(video, g)
    /\ video' = [video EXCEPT ![g] = "stopped"]
    /\ UNCHANGED <<pairVars, lockVars, rtpVars, handleVars, sessVars, shutdown, ctl, audio, audioKeys, netq>>

AudioObserveShutdown(g) ==
    /\ shutdown
    /\ MediaRunning(audio, g)
    /\ audio' = [audio EXCEPT ![g] = "stopped"]
    /\ UNCHANGED <<pairVars, lockVars, rtpVars, handleVars, sessVars, shutdown, ctl, video, audioKeys, netq>>

(***************************************************************************)
(* SessionInner::run.                                                      *)
(***************************************************************************)
\* ControlStream::new: the task is spawned with a clone of session_context
\* and an empty command channel.
ControlNew(k) == [NoControl EXCEPT !.pc = "init", !.keys = k]

\* SessionCommand::StartStream: new streams replace the ones held.
SessionStartStream ==
    /\ sessPc = "recv"
    /\ cmdq # <<>>
    /\ Head(cmdq).op = "StartStream"
    /\ cmdq' = Tail(cmdq)
    /\ gen' = gen + 1
    /\ video' = MediaNew(video, gen + 1)
    /\ audio' = MediaNew(audio, gen + 1)
    /\ ctl' = [ctl EXCEPT ![gen + 1] = ControlNew(sessKeys)]
    /\ video_stream' = gen + 1
    /\ audio_stream' = gen + 1
    /\ control_stream' = gen + 1
    /\ UNCHANGED <<pairVars, lockVars, rtpVars, handleVars, ncmds, sessPc, sessKeys, shutdown, audioKeys, netq>>

\* SessionCommand::StopStream.
SessionStopStream ==
    /\ sessPc = "recv"
    /\ cmdq # <<>>
    /\ Head(cmdq).op = "StopStream"
    /\ cmdq' = Tail(cmdq)
    /\ shutdown' = TRUE
    /\ UNCHANGED <<pairVars, lockVars, rtpVars, handleVars, ncmds, sessPc, sessKeys, video_stream, audio_stream,
                   control_stream, gen, ctl, mediaVars, netq>>

\* Whether the UpdateKeys arm gets past its two let-else guards.
CanUpdateKeys(a, c) == a # 0 /\ c # 0

\* ControlStream::update_keys: command_tx.send; an error (the receiver is
\* gone) is dropped by the caller.
ControlSend(g, k) ==
    IF ctl[g].pc = "done" THEN ctl
    ELSE [ctl EXCEPT ![g].q = Append(@, UpdateKeysCmd(k))]

\* An UpdateKeys arm that forwards the keys without storing them.
SessionKeysNotStored(k) == sessKeys

\* session_context.keys after an UpdateKeys(k) that passed the guards.
SessionKeysAfter(k) == k

\* SessionCommand::UpdateKeys.
SessionUpdateKeys ==
    /\ sessPc = "recv"
    /\ cmdq # <<>>
    /\ Head(cmdq).op = "UpdateKeys"
    /\ cmdq' = Tail(cmdq)
    /\ IF CanUpdateKeys(audio_stream, control_stream)
       THEN /\ \/ ctl[control_stream].pc = "done"
               \/ Len(ctl[control_stream].q) < ControlChannelCapacity
            /\ sessKeys' = SessionKeysAfter(Head(cmdq).keys)
            /\ audioKeys' = AudioTakeKeys(audio_stream, Head(cmdq).keys)
            /\ ctl' = ControlSend(control_stream, Head(cmdq).keys)
       ELSE UNCHANGED <<sessKeys, audioKeys, ctl>>
    /\ UNCHANGED <<pairVars, lockVars, rtpVars, handleVars, ncmds, sessPc, video_stream, audio_stream,
                   control_stream, gen, shutdown, video, audio, netq>>

\* command_rx.recv() returns None: every sender is dropped and the channel
\* is empty. The loop ends, the shutdown is triggered and self is dropped.
SessionClosed ==
    /\ sessPc = "recv"
    /\ cmdq = <<>>
    /\ handles = {}
    /\ sessPc' = "done"
    /\ shutdown' = TRUE
    /\ UNCHANGED <<pairVars, lockVars, rtpVars, handleVars, cmdq, ncmds, sessKeys, video_stream, audio_stream,
                   control_stream, gen, ctl, mediaVars, netq>>

(***************************************************************************)
(* ControlStreamInner::run, spawned by ControlStream::new on a blocking    *)
(* worker as block_on(wrap_cancel(wrap_trigger_shutdown((), run))).        *)
(* wrap_trigger_shutdown triggers the shutdown when run completes or is    *)
(* dropped; wrap_cancel drops run once the shutdown is triggered, which    *)
(* can only happen where run is suspended at an .await.                    *)
(***************************************************************************)
\* The result of run by the reason it ended.
RunResult(why) ==
    CASE why \in {"timeout", "disconnected"} -> "Ok"
      [] why \in {"create_err", "host_err", "parse_err", "dispatch_err"} -> "Err"
      [] why \in {"panic", "unreachable"} -> "Panic"
      [] why = "cancelled" -> "Cancelled"
      [] OTHER -> ""

\* A command_tx that outlives the session loop.
SenderNeverDropped(g) == TRUE

\* The command_tx of generation g is held by self.control_stream of the
\* session loop, and by nothing else.
SenderAlive(g) == control_stream = g /\ sessPc # "done"

\* command_rx.try_recv()
TryRecv(q, alive) ==
    IF q # <<>> THEN "Ok" ELSE IF alive THEN "Empty" ELSE "Disconnected"

\* A command match that drops the keys it received.
KeysAfterCommandIgnored(r, q, k) == k

\* context.keys after the command match.
KeysAfterCommand(r, q, k) == IF r = "Ok" THEN Head(q).keys ELSE k

\* A loop that never looks at the deadline.
DeadlineNeverPassed(rem) == FALSE

\* Instant::now() > stop_deadline
DeadlinePassed(rem) == rem < 0

\* The task ends and run's locals (command_rx, context, stop_deadline) are
\* dropped with it; the wrappers trigger the shutdown.
CtlEnd(g, why) ==
    /\ ctl' = [ctl EXCEPT ![g] = [NoControl EXCEPT !.pc = "done", !.exit = why]]
    /\ shutdown' = TRUE

\* run is first polled, which wrap_cancel does only while the shutdown is
\* not triggered; enet.create_host succeeds and
\* stop_deadline = now + stream_timeout.
CtlCreateHost(g) ==
    /\ ctl[g].pc = "init"
    /\ ~shutdown
    /\ ctl' = [ctl EXCEPT ![g].pc = "top", ![g].remaining = StreamTimeout]
    /\ UNCHANGED <<pairVars, lockVars, rtpVars, handleVars, sessVars, shutdown, mediaVars, netq>>

\* config.address does not parse, or the host cannot be created.
CtlCreateHostFail(g) ==
    /\ ctl[g].pc = "init"
    /\ ~shutdown
    /\ CtlEnd(g, "create_err")
    /\ UNCHANGED <<pairVars, lockVars, rtpVars, handleVars, sessVars, mediaVars, netq>>

\* The wrapper finds the shutdown triggered before run is first polled.
CtlCancelAtStart(g) ==
    /\ ctl[g].pc = "init"
    /\ shutdown
    /\ CtlEnd(g, "cancelled")
    /\ UNCHANGED <<pairVars, lockVars, rtpVars, handleVars, sessVars, mediaVars, netq>>

\* The head of the loop: one try_recv, then the deadline check.
CtlPoll(g) ==
    /\ ctl[g].pc = "top"
    /\ LET r == TryRecv(ctl[g].q, SenderAlive(g))
       IN  IF r = "Disconnected" THEN CtlEnd(g, "disconnected")
           ELSE IF DeadlinePassed(ctl[g].remaining) THEN CtlEnd(g, "timeout")
           ELSE /\ ctl' = [ctl EXCEPT ![g].pc = "service",
                                      ![g].keys = KeysAfterCommand(r, ctl[g].q, @),
                                      ![g].q = IF r = "Ok" THEN Tail(@) ELSE @,
                                      ![g].ev = NoEvent]
                /\ UNCHANGED shutdown
    /\ UNCHANGED <<pairVars, lockVars, rtpVars, handleVars, sessVars, mediaVars, netq>>

\* host.service(1000) fails.
CtlServiceFail(g) ==
    /\ ctl[g].pc = "service"
    /\ CtlEnd(g, "host_err")
    /\ UNCHANGED <<pairVars, lockVars, rtpVars, handleVars, sessVars, mediaVars, netq>>

\* host.service(1000) returns None, a Connect or a Disconnect.
CtlServiceIdle(g) ==
    /\ ctl[g].pc = "service"
    /\ ctl' = [ctl EXCEPT ![g].pc = "top"]
    /\ UNCHANGED <<pairVars, lockVars, rtpVars, handleVars, sessVars, shutdown, mediaVars, netq>>

\* What the Receive arm makes of a packet under the current key, up to the
\* dispatch: out is ParseErr (the ? on the received bytes), Panic (a slice
\* out of range), DecryptErr or InnerParseErr (continue), Unreachable (the
\* unreachable!() arm) or Dispatch of msg.
HandlePacket(packet, key) ==
    LET m == from_bytes(packet)
    IN  IF m.kind = "Err" THEN [out |-> "ParseErr", msg |-> "", enc |-> FALSE]
        ELSE IF m.kind = "Panic" THEN [out |-> "Panic", msg |-> "", enc |-> FALSE]
        ELSE IF m.kind = "Encrypted" THEN
            LET d == decrypt_aead(key, InitializationVector0(m.sequence_number),
                                  m.payload, m.tag)
                inner == from_bytes(d.data)
            IN  IF ~d.ok THEN [out |-> "DecryptErr", msg |-> "", enc |-> TRUE]
                ELSE IF inner.kind = "Err"
                    THEN [out |-> "InnerParseErr", msg |-> "", enc |-> TRUE]
                ELSE IF inner.kind = "Panic"
                    THEN [out |-> "Panic", msg |-> "", enc |-> TRUE]
                ELSE IF inner.kind = "Encrypted"
                    THEN [out |-> "Unreachable", msg |-> "Encrypted", enc |-> TRUE]
                ELSE [out |-> "Dispatch", msg |-> inner.kind, enc |-> TRUE]
        ELSE [out |-> "Dispatch", msg |-> m.kind, enc |-> FALSE]

IdrKinds == {"RequestIdrFrame", "InvalidateReferenceFrames"}
\* The arms of the dispatch that hold an .await.
AwaitKinds == IdrKinds \cup {"StartB", "InputData"}

\* A dispatch that resets the deadline on every message.
DeadlineAfterAnyMessage(msg, rem) == StreamTimeout

\* stop_deadline - now after the dispatch of msg.
DeadlineAfter(msg, rem) == IF msg = "Ping" THEN StreamTimeout ELSE rem

\* The dispatch of msg returns Err through one of its ? operators.
DispatchFails(msg, g) ==
    \/ msg \in IdrKinds /\ ~MediaCallOk(video, g)
    \/ msg = "StartB" /\ (~MediaCallOk(audio, g) \/ ~MediaCallOk(video, g))

\* Why run ends on the outcome h, "" when the loop goes on.
EndOn(h, g) ==
    CASE h.out = "ParseErr" -> "parse_err"
      [] h.out = "Panic" -> "panic"
      [] h.out = "Unreachable" -> "unreachable"
      [] h.out = "Dispatch" /\ DispatchFails(h.msg, g) -> "dispatch_err"
      [] OTHER -> ""

\* audio_stream.start(context.keys.clone()) of the StartB arm.
StartsAudio(h, g) == h.out = "Dispatch" /\ h.msg = "StartB" /\ MediaCallOk(audio, g)
\* video_stream.start() of the StartB arm, reached after the audio start.
StartsVideo(h, g) == StartsAudio(h, g) /\ MediaCallOk(video, g)
\* The keys handed to audio_stream.start.
AudioStartKeys(g) == ctl[g].keys

\* host.service(1000) returns a Receive event, which is handled to the end.
CtlReceive(g) ==
    /\ ctl[g].pc = "service"
    /\ netq # <<>>
    /\ netq' = Tail(netq)
    /\ LET h == HandlePacket(Head(netq), ctl[g].keys)
           why == EndOn(h, g)
       IN  /\ audio' = IF StartsAudio(h, g) THEN MediaStart(audio, g) ELSE audio
           /\ audioKeys' = IF StartsAudio(h, g)
                           THEN AudioTakeKeys(g, AudioStartKeys(g)) ELSE audioKeys
           /\ video' = IF StartsVideo(h, g) THEN MediaStart(video, g) ELSE video
           /\ IF why # "" THEN CtlEnd(g, why)
              ELSE /\ ctl' = [ctl EXCEPT
                         ![g].pc = "top",
                         ![g].ev = h,
                         ![g].remaining =
                             IF h.out = "Dispatch" THEN DeadlineAfter(h.msg, @) ELSE @]
                   /\ UNCHANGED shutdown
    /\ UNCHANGED <<pairVars, lockVars, rtpVars, handleVars, sessVars>>

\* The dispatch suspends at an .await with the shutdown triggered, and
\* wrap_cancel drops run there: at the first .await of the arm, or (second)
\* at video_stream.start() after the audio stream was started.
CtlCancelAtAwait(g, second) ==
    /\ ctl[g].pc = "service"
    /\ netq # <<>>
    /\ shutdown
    /\ LET h == HandlePacket(Head(netq), ctl[g].keys)
       IN  /\ h.out = "Dispatch"
           /\ h.msg \in AwaitKinds
           /\ second => StartsAudio(h, g)
           /\ audio' = IF second THEN MediaStart(audio, g) ELSE audio
           /\ audioKeys' = IF second
                           THEN AudioTakeKeys(g, AudioStartKeys(g)) ELSE audioKeys
    /\ netq' = Tail(netq)
    /\ CtlEnd(g, "cancelled")
    /\ UNCHANGED <<pairVars, lockVars, rtpVars, handleVars, sessVars, video>>

(***************************************************************************)
(* The environment: the client and the clock.                              *)
(***************************************************************************)
\* A datagram of a connected peer reaches a bound host.
ClientSend(d) ==
    /\ \E g \in Gens : CtlInLoop(g)
    /\ Len(netq) < MaxQueue
    /\ netq' = Append(netq, d)
    /\ UNCHANGED <<pairVars, lockVars, rtpVars, handleVars, sessVars, shutdown, ctl, mediaVars>>

\* One unit of time passes for every running control loop.
Tick ==
    /\ \E g \in Gens : CtlInLoop(g) /\ ctl[g].remaining >= 0
    /\ ctl' = [g \in Gens |->
          IF CtlInLoop(g) /\ ctl[g].remaining >= 0
          THEN [ctl[g] EXCEPT !.remaining = @ - 1] ELSE ctl[g]]
    /\ UNCHANGED <<pairVars, lockVars, rtpVars, handleVars, sessVars, shutdown, mediaVars, netq>>

(***************************************************************************)
(* Pairing (webserver/pairing.rs). Byte strings are terms: a term has a    *)
(* tag t and a length len; SHA-256, AES-128-ECB and the RSA signature are  *)
(* term constructors, so that two values are equal only if they were       *)
(* computed the same way from the same inputs.                             *)
(***************************************************************************)
\* uniqueid values, PINs, salts, certificates and 16-byte random values.
MaxClients == 1
MaxPins == 2
MaxNonces == 2
\* get_server_cert handlers that can be in flight at once.
MaxWaiters == 2

UniqueIds == 1..MaxClients
Pins == 1..MaxPins
Nonces == 1..MaxNonces
Waiters == 1..MaxWaiters
\* The salt and the certificate signature the client sends, and the
\* signature of ./cert/cert.pem.
ClientSalt == 7
ClientCertSignature == 8
ServerCertSignature == 9

NoneTerm == [t |-> "none", len |-> 0]
Bytes(v, n) == [t |-> "bytes", v |-> v, len |-> n]
Cat(a, b) == [t |-> "cat", a |-> a, b |-> b, len |-> a.len + b.len]
Sha256(data) == [t |-> "sha256", data |-> data, len |-> 32]

\* create_key: SHA-256(salt || pin)[..16]
create_key(salt, pin) == [t |-> "key", salt |-> salt, pin |-> pin, len |-> 16]

\* encrypt / decrypt: AES-128-ECB without padding. The output has the
\* length of the input; each undoes the other under the same key.
encrypt(plaintext, key) ==
    IF plaintext.t = "dec" /\ plaintext.key = key THEN plaintext.ct
    ELSE [t |-> "enc", key |-> key, pt |-> plaintext, len |-> plaintext.len]
decrypt(ciphertext, key) ==
    IF ciphertext.t = "enc" /\ ciphertext.key = key THEN ciphertext.pt
    ELSE [t |-> "dec", key |-> key, ct |-> ciphertext, len |-> ciphertext.len]

\* sign: RSA-SHA256 with the server's 2048-bit key.
sign(data) == [t |-> "sig", data |-> data, len |-> 256]

NoClient == [present |-> FALSE]
NoWaiter == [pc |-> "idle", id |-> 0, current |-> FALSE]
NoRequest == [phase |-> "", id |-> 0, arg |-> NoneTerm, status |-> 0, body |-> NoneTerm]

Response(phase, id, arg, status, body) ==
    [phase |-> phase, id |-> id, arg |-> arg, status |-> status, body |-> body]

PairInit ==
    /\ clients = [id \in UniqueIds |-> NoClient]
    /\ waiters = [w \in Waiters |-> NoWaiter]
    /\ last = NoRequest

\* The Client that get_server_cert builds. verified is not a field of
\* Client: it records that client_pairing_secret accepted this record.
NewClient(salt, pem) ==
    [present |-> TRUE, salt |-> salt, pem |-> pem, key |-> NoneTerm,
     server_secret |-> NoneTerm, server_challenge |-> NoneTerm,
     client_hash |-> NoneTerm, verified |-> FALSE]

\* get_server_cert up to the end of the block that holds the lock: the
\* record is inserted, replacing one with the same uniqueid.
GetServerCertInsert(w, id, salt, pem) ==
    /\ waiters[w].pc = "idle"
    /\ clients' = [clients EXCEPT ![id] = NewClient(salt, pem)]
    /\ waiters' = [x \in Waiters |->
          IF x = w THEN [pc |-> "inserted", id |-> id, current |-> TRUE]
          ELSE IF waiters[x].id = id THEN [waiters[x] EXCEPT !.current = FALSE]
          ELSE waiters[x]]
    /\ last' = NoRequest
    /\ UNCHANGED <<streamVars, lockVars, rtpVars>>

\* notify_pin.notified() is called: from here on notify_waiters reaches it.
GetServerCertWait(w) ==
    /\ waiters[w].pc = "inserted"
    /\ waiters' = [waiters EXCEPT ![w].pc = "waiting"]
    /\ last' = NoRequest
    /\ UNCHANGED clients
    /\ UNCHANGED <<streamVars, lockVars, rtpVars>>

\* The handler is woken and answers with the server certificate.
GetServerCertRespond(w) ==
    /\ waiters[w].pc = "woken"
    /\ last' = Response("getservercert", waiters[w].id, NoneTerm, 200, Bytes(ServerCertSignature, 256))
    /\ waiters' = [waiters EXCEPT ![w] = NoWaiter]
    /\ UNCHANGED clients
    /\ UNCHANGED <<streamVars, lockVars, rtpVars>>

\* notify_waiters(): wakes the handlers waiting on this record's Notify.
NotifyWaiters(id) ==
    [x \in Waiters |->
        IF waiters[x].id = id /\ waiters[x].current /\ waiters[x].pc = "waiting"
        THEN [waiters[x] EXCEPT !.pc = "woken"] ELSE waiters[x]]

\* client.key after /pin.
KeyAfterPin(client, pin) == create_key(client.salt, pin)

\* pin
PinRequest(id, pin) ==
    /\ IF clients[id].present
       THEN /\ clients' = [clients EXCEPT ![id].key = KeyAfterPin(clients[id], pin)]
            /\ waiters' = NotifyWaiters(id)
            /\ last' = Response("pin", id, Bytes(pin, 4), 200, NoneTerm)
       ELSE /\ last' = Response("pin", id, Bytes(pin, 4), 400, NoneTerm)
            /\ UNCHANGED <<clients, waiters>>
    /\ UNCHANGED <<streamVars, lockVars, rtpVars>>

\* client_challenge
ClientChallenge(id, client_challenge, server_secret, server_challenge) ==
    /\ IF ~clients[id].present THEN
           /\ last' = Response("clientchallenge", id, client_challenge, 400, NoneTerm)
           /\ UNCHANGED <<clients, waiters>>
       ELSE IF clients[id].key = NoneTerm THEN
           /\ last' = Response("clientchallenge", id, client_challenge, 400, NoneTerm)
           /\ UNCHANGED <<clients, waiters>>
       ELSE
           LET key == clients[id].key
               decrypted == Cat(Cat(decrypt(client_challenge, key),
                                    Bytes(ServerCertSignature, 256)), server_secret)
               challenge_response == Cat(Sha256(decrypted), server_challenge)
           IN  /\ clients' = [clients EXCEPT ![id].server_secret = server_secret,
                                             ![id].server_challenge = server_challenge]
               /\ last' = Response("clientchallenge", id, client_challenge, 200, encrypt(challenge_response, key))
               /\ UNCHANGED waiters
    /\ UNCHANGED <<streamVars, lockVars, rtpVars>>

\* server_challenge_response: client_hash is stored before
\* client.server_secret.unwrap() is reached.
ServerChallengeResponse(id, server_challenge_response) ==
    /\ IF ~clients[id].present THEN
           /\ last' = Response("serverchallengeresp", id, server_challenge_response, 400, NoneTerm)
           /\ UNCHANGED <<clients, waiters>>
       ELSE IF clients[id].key = NoneTerm THEN
           /\ last' = Response("serverchallengeresp", id, server_challenge_response, 400, NoneTerm)
           /\ UNCHANGED <<clients, waiters>>
       ELSE
           /\ clients' = [clients EXCEPT
                  ![id].client_hash = decrypt(server_challenge_response, clients[id].key)]
           /\ last' = IF clients[id].server_secret = NoneTerm
                      THEN Response("serverchallengeresp", id, server_challenge_response, 0, NoneTerm)
                      ELSE Response("serverchallengeresp", id, server_challenge_response, 200,
                                    Cat(clients[id].server_secret,
                                        sign(clients[id].server_secret)))
           /\ UNCHANGED waiters
    /\ UNCHANGED <<streamVars, lockVars, rtpVars>>

\* The status of client_pairing_secret for a record in the map: 0 where it
\* panics (the length check, server_challenge.unwrap(), client_hash.unwrap()).
PairingSecretStatus(client, client_pairing_secret) ==
    IF client_pairing_secret.len # 256 + 16 THEN 0
    ELSE IF client.server_challenge = NoneTerm THEN 0
    ELSE IF client.client_hash = NoneTerm THEN 0
    ELSE IF Sha256(Cat(Cat(client.server_challenge, Bytes(client.pem, 256)),
                       client_pairing_secret.a)) # client.client_hash THEN 400
    ELSE 200

\* client_pairing_secret
ClientPairingSecret(id, client_pairing_secret) ==
    /\ IF ~clients[id].present THEN
           /\ last' = Response("clientpairingsecret", id, client_pairing_secret, 400, NoneTerm)
           /\ UNCHANGED <<clients, waiters>>
       ELSE
           LET status == PairingSecretStatus(clients[id], client_pairing_secret)
           IN  /\ last' = Response("clientpairingsecret", id, client_pairing_secret, status, NoneTerm)
               /\ clients' = [clients EXCEPT ![id].verified = @ \/ status = 200]
               /\ UNCHANGED waiters
    /\ UNCHANGED <<streamVars, lockVars, rtpVars>>

\* pair_challenge
PairChallenge(id) ==
    /\ last' = Response("pairchallenge", id, NoneTerm,
                         IF clients[id].present THEN 200 ELSE 400, NoneTerm)
    /\ UNCHANGED <<clients, waiters>>
    /\ UNCHANGED <<streamVars, lockVars, rtpVars>>

\* An unpair that answers OK whether or not there was a record.
UnpairAlwaysOk(removed) == 200

\* The status of unpair by what clients.remove returned.
UnpairStatus(removed) == IF removed THEN 200 ELSE 400

\* unpair: the record and its Notify leave the map.
Unpair(id) ==
    /\ IF clients[id].present
       THEN /\ clients' = [clients EXCEPT ![id] = NoClient]
            /\ waiters' = [x \in Waiters |->
                  IF waiters[x].id = id THEN [waiters[x] EXCEPT !.current = FALSE]
                  ELSE waiters[x]]
            /\ last' = Response("unpair", id, NoneTerm, UnpairStatus(TRUE), NoneTerm)
       ELSE /\ last' = Response("unpair", id, NoneTerm, UnpairStatus(FALSE), NoneTerm)
            /\ UNCHANGED <<clients, waiters>>
    /\ UNCHANGED <<streamVars, lockVars, rtpVars>>

(***************************************************************************)
(* The pairing handlers statement by statement, with the clients-map       *)
(* mutex: a handler task is at clients.lock().await, then holds the guard   *)
(* from the lookup of the record to its return (or panic), where the guard  *)
(* is dropped. get_server_cert drops it at the end of the block that        *)
(* inserts the record.                                                      *)
(***************************************************************************)
MaxTasks == 2
Tasks == 1..MaxTasks

NoTask == [pc |-> "idle", phase |-> "", id |-> 0, arg |-> NoneTerm]

LockInit ==
    /\ mutex = 0
    /\ tasks = [t \in Tasks |-> NoTask]

\* The places of a task inside the critical section.
SectionPcs == {"held", "secret_set", "challenge_set", "hash_set"}
InSection(t) == tasks[t].pc \in SectionPcs

\* A request arrives and its handler runs up to clients.lock().
TaskStart(t, phase, id, arg) ==
    /\ tasks[t].pc = "idle"
    /\ tasks' = [tasks EXCEPT ![t] = [pc |-> "lock", phase |-> phase, id |-> id, arg |-> arg]]
    /\ last' = NoRequest
    /\ UNCHANGED <<streamVars, rtpVars, clients, waiters, mutex>>

\* A mutex that lets every task in.
CanLockAlways(t) == TRUE

\* Mutex::lock().await completes only while no guard is alive.
CanLock(t) == mutex = 0

TaskLock(t) ==
    /\ tasks[t].pc = "lock"
    /\ CanLock(t)
    /\ mutex' = t
    /\ tasks' = [tasks EXCEPT ![t].pc = "held"]
    /\ last' = NoRequest
    /\ UNCHANGED <<streamVars, rtpVars, clients, waiters>>

\* The handler returns (or unwinds): the guard is dropped and the request is
\* answered.
TaskReturn(t, status, body) ==
    /\ mutex' = IF mutex = t THEN 0 ELSE mutex
    /\ tasks' = [tasks EXCEPT ![t] = NoTask]
    /\ last' = Response(tasks[t].phase, tasks[t].id, tasks[t].arg, status, body)

\* The task holds the guard at pc and handles phase.
TaskAt(t, pc, phase) == tasks[t].pc = pc /\ tasks[t].phase = phase

\* The lookup of the record fails, or (clientchallenge, serverchallengeresp)
\* the record has no key: bad_request().
TaskReject(t) ==
    /\ tasks[t].pc = "held"
    /\ tasks[t].phase \in {"pin", "clientchallenge", "serverchallengeresp",
                           "clientpairingsecret", "pairchallenge", "unpair"}
    /\ \/ ~clients[tasks[t].id].present
       \/ /\ clients[tasks[t].id].present
          /\ tasks[t].phase \in {"clientchallenge", "serverchallengeresp"}
          /\ clients[tasks[t].id].key = NoneTerm
    /\ TaskReturn(t, 400, NoneTerm)
    /\ UNCHANGED <<streamVars, rtpVars, clients, waiters>>

\* get_server_cert: clients.insert, end of the block. The wait that follows
\* is outside the critical section.
GetServerCertStore(t) ==
    /\ TaskAt(t, "held", "getservercert")
    /\ clients' = [clients EXCEPT ![tasks[t].id] = NewClient(ClientSalt, ClientCertSignature)]
    /\ mutex' = 0
    /\ tasks' = [tasks EXCEPT ![t] = NoTask]
    /\ last' = NoRequest
    /\ UNCHANGED <<streamVars, rtpVars, waiters>>

\* pin: client.key = Some(create_key(..)); notify_waiters(); OK.
PinStore(t) ==
    /\ TaskAt(t, "held", "pin")
    /\ clients[tasks[t].id].present
    /\ clients' = [clients EXCEPT
           ![tasks[t].id].key = KeyAfterPin(clients[tasks[t].id], tasks[t].arg.v)]
    /\ waiters' = NotifyWaiters(tasks[t].id)
    /\ TaskReturn(t, 200, NoneTerm)
    /\ UNCHANGED <<streamVars, rtpVars>>

\* client_challenge: client.server_secret = Some(server_secret).
ChallengeStoreSecret(t, server_secret) ==
    /\ TaskAt(t, "held", "clientchallenge")
    /\ clients[tasks[t].id].present
    /\ clients[tasks[t].id].key # NoneTerm
    /\ clients' = [clients EXCEPT ![tasks[t].id].server_secret = server_secret]
    /\ tasks' = [tasks EXCEPT ![t].pc = "secret_set"]
    /\ last' = NoRequest
    /\ UNCHANGED <<streamVars, rtpVars, waiters, mutex>>

\* client_challenge: client.server_challenge = Some(server_challenge).
ChallengeStoreChallenge(t, server_challenge) ==
    /\ TaskAt(t, "secret_set", "clientchallenge")
    /\ clients[tasks[t].id].present
    /\ clients' = [clients EXCEPT ![tasks[t].id].server_challenge = server_challenge]
    /\ tasks' = [tasks EXCEPT ![t].pc = "challenge_set"]
    /\ last' = NoRequest
    /\ UNCHANGED <<streamVars, rtpVars, waiters, mutex>>

\* client_challenge: the answer, from the key, the secret and the challenge
\* of the record.
ChallengeRespond(t) ==
    /\ TaskAt(t, "challenge_set", "clientchallenge")
    /\ clients[tasks[t].id].present
    /\ LET client == clients[tasks[t].id]
           decrypted == Cat(Cat(decrypt(tasks[t].arg, client.key),
                                Bytes(ServerCertSignature, 256)), client.server_secret)
       IN  TaskReturn(t, 200,
                      encrypt(Cat(Sha256(decrypted), client.server_challenge), client.key))
    /\ UNCHANGED <<streamVars, rtpVars, clients, waiters>>

\* server_challenge_response: client.client_hash = Some(decrypted).
ResponseStoreHash(t) ==
    /\ TaskAt(t, "held", "serverchallengeresp")
    /\ clients[tasks[t].id].present
    /\ clients[tasks[t].id].key # NoneTerm
    /\ clients' = [clients EXCEPT
           ![tasks[t].id].client_hash = decrypt(tasks[t].arg, clients[tasks[t].id].key)]
    /\ tasks' = [tasks EXCEPT ![t].pc = "hash_set"]
    /\ last' = NoRequest
    /\ UNCHANGED <<streamVars, rtpVars, waiters, mutex>>

\* server_challenge_response: client.server_secret.unwrap() and the answer.
ResponseRespond(t) ==
    /\ TaskAt(t, "hash_set", "serverchallengeresp")
    /\ clients[tasks[t].id].present
    /\ LET server_secret == clients[tasks[t].id].server_secret
       IN  IF server_secret = NoneTerm
           THEN TaskReturn(t, 0, NoneTerm)
           ELSE TaskReturn(t, 200, Cat(server_secret, sign(server_secret)))
    /\ UNCHANGED <<streamVars, rtpVars, clients, waiters>>

\* client_pairing_secret after the lookup.
PairingSecretRespond(t) ==
    /\ TaskAt(t, "held", "clientpairingsecret")
    /\ clients[tasks[t].id].present
    /\ LET status == PairingSecretStatus(clients[tasks[t].id], tasks[t].arg)
       IN  /\ TaskReturn(t, status, NoneTerm)
           /\ clients' = [clients EXCEPT ![tasks[t].id].verified = @ \/ status = 200]
    /\ UNCHANGED <<streamVars, rtpVars, waiters>>

\* pair_challenge after contains_key.
PairChallengeRespond(t) ==
    /\ TaskAt(t, "held", "pairchallenge")
    /\ clients[tasks[t].id].present
    /\ TaskReturn(t, 200, NoneTerm)
    /\ UNCHANGED <<streamVars, rtpVars, clients, waiters>>

\* unpair: clients.remove returned the record.
UnpairRemove(t) ==
    /\ TaskAt(t, "held", "unpair")
    /\ clients[tasks[t].id].present
    /\ clients' = [clients EXCEPT ![tasks[t].id] = NoClient]
    /\ TaskReturn(t, UnpairStatus(TRUE), NoneTerm)
    /\ UNCHANGED <<streamVars, rtpVars, waiters>>

(***************************************************************************)
(* The RTP audio stream: AudioStream::run, encode and send_packet.         *)
(***************************************************************************)
MaxAddrs == 2
MaxInbox == 1
MaxPackets == 2
MaxPacketLen == 5

RTPA_DATA_SHARDS == 4
RTPA_FEC_SHARDS == 2

\* Bytes written by RtpHeader::serialize (rtp.rs): flags, packet type,
\* sequence number, timestamp and ssrc, the shard following at offset 12.
RtpHeaderSize == 12

MaxU16 == 65535

\* A u32 as its two 16-bit halves <<high, low>>, and u32 addition: the sum
\* modulo 2^32 and whether it overflowed.
U32(high, low) == <<high, low>>
AddU32(a, b) ==
    LET low == a[2] + b[2]
        high == a[1] + b[1] + (low \div (MaxU16 + 1))
    IN  [overflow |-> high > MaxU16,
         value |-> U32(high % (MaxU16 + 1), low % (MaxU16 + 1))]

\* Values of config.packet_duration: 1 and 2^31.
PacketDurations == {U32(0, 1), U32(32768, 0)}

Addrs == 1..MaxAddrs
PacketLens == 1..MaxPacketLen
\* Values of the bytes of an encoded packet.
ByteValues == {0, 1}
\* The packets receive_packet may produce.
Packets == UNION {[1..len -> ByteValues] : len \in PacketLens}

\* self.packet.as_raw().size
packet_size == Len(packet_data)
Ping == <<"P", "I", "N", "G">>
\* What a peer may send to the audio port.
AudioDatagrams == {Ping, <<"P", "I", "N">>, <<"P", "I", "N", "G", "!">>, <<>>}

\* A null supported_samplerates, and the lists a codec may report (without
\* their terminating 0).
NullList == "null"
RateLists == {NullList, <<44100>>, <<48000>>, <<22050, 48000>>}

\* select_sample_rate: 44100 for a list that is not null; for a null list
\* the loop `while !p.is_null()` starts from the null list, makes no turn
\* and leaves best_samplerate at 0.
select_sample_rate(rates) ==
    IF rates # NullList THEN 44100
    ELSE LET best_samplerate == 0
         IN  best_samplerate

RtpInit ==
    /\ rtpPc = "none"
    /\ client_address = 0
    /\ socket_in = <<>>
    /\ packet_data = <<>>
    /\ shards = <<>>
    /\ shard_index = 0
    /\ socket_out = <<>>
    /\ sequence_number = 0
    /\ timestamp = U32(0, 0)
    /\ packet_duration = U32(0, 0)
    /\ npackets = 0
    /\ receive_result = ""
    /\ supported_samplerates = NullList
    /\ sample_rate = 0

rtpFrame == <<streamVars, pairVars, lockVars, supported_samplerates, sample_rate>>

\* AudioStream::new with config, and run up to its loop.
RtpNew(config, rates) ==
    /\ rtpPc = "none"
    /\ rtpPc' = "recv"
    /\ sequence_number' = 0
    /\ timestamp' = U32(0, 0)
    /\ packet_duration' = config
    /\ supported_samplerates' = rates
    /\ sample_rate' = select_sample_rate(rates)
    /\ UNCHANGED <<streamVars, pairVars, lockVars, client_address, socket_in, packet_data, shards, shard_index, socket_out,
                   npackets, receive_result>>

\* A peer sends a datagram to the audio port.
RtpClientSend(addr, payload) ==
    /\ rtpPc # "none"
    /\ Len(socket_in) < MaxInbox
    /\ socket_in' = Append(socket_in, [from |-> addr, payload |-> payload])
    /\ UNCHANGED <<rtpFrame, rtpPc, client_address, packet_data, shards, shard_index, socket_out,
                   sequence_number, timestamp, packet_duration, npackets, receive_result>>

\* client_address after try_recv_from returned the datagram.
AddressAfterAnyDatagram(address, datagram) == datagram.from

AddressAfter(address, datagram) ==
    IF datagram.payload = Ping THEN datagram.from ELSE address

\* try_recv_from: a datagram, or WouldBlock when none is queued.
RtpRecv ==
    /\ rtpPc = "recv"
    /\ IF socket_in # <<>>
       THEN /\ client_address' = AddressAfter(client_address, Head(socket_in))
            /\ socket_in' = Tail(socket_in)
       ELSE UNCHANGED <<client_address, socket_in>>
    /\ rtpPc' = "frame"
    /\ UNCHANGED <<rtpFrame, packet_data, shards, shard_index, socket_out,
                   sequence_number, timestamp, packet_duration, npackets, receive_result>>

\* try_recv_from fails with another error than WouldBlock: return Err(()).
RtpRecvFail ==
    /\ rtpPc = "recv"
    /\ rtpPc' = "failed"
    /\ UNCHANGED <<rtpFrame, client_address, socket_in, packet_data, shards, shard_index, socket_out,
                   sequence_number, timestamp, packet_duration, npackets, receive_result>>

\* The frame is filled; with a client address encode() sends it to the
\* encoder, without one the tick goes to its sleep.
RtpFrame ==
    /\ rtpPc = "frame"
    /\ rtpPc' = IF client_address = 0 THEN "sleep" ELSE "receive"
    /\ UNCHANGED <<rtpFrame, client_address, socket_in, packet_data, shards, shard_index, socket_out,
                   sequence_number, timestamp, packet_duration, npackets, receive_result>>

\* make_writable or send_frame fails.
RtpFrameFail ==
    /\ rtpPc = "frame"
    /\ rtpPc' = "failed"
    /\ UNCHANGED <<rtpFrame, client_address, socket_in, packet_data, shards, shard_index, socket_out,
                   sequence_number, timestamp, packet_duration, npackets, receive_result>>

\* receive_packet returns Ok: send_packet starts on the packet data.
RtpReceivePacket(data) ==
    /\ rtpPc = "receive"
    /\ npackets < MaxPackets
    /\ npackets' = npackets + 1
    /\ packet_data' = data
    /\ socket_out' = <<>>
    /\ rtpPc' = "raw"
    /\ receive_result' = "ok"
    /\ UNCHANGED <<rtpFrame, client_address, socket_in, shards, shard_index,
                   sequence_number, timestamp, packet_duration>>

\* receive_packet returns EAGAIN: encode returns Ok(()).
RtpEncoderAgain ==
    /\ rtpPc = "receive"
    /\ rtpPc' = "sleep"
    /\ receive_result' = "again"
    /\ UNCHANGED <<rtpFrame, client_address, socket_in, packet_data, shards, shard_index, socket_out,
                   sequence_number, timestamp, packet_duration, npackets>>

\* receive_packet returns AVERROR_EOF: encode returns Ok(()) as well.
RtpEncoderEof ==
    /\ rtpPc = "receive"
    /\ rtpPc' = "sleep"
    /\ receive_result' = "eof"
    /\ UNCHANGED <<rtpFrame, client_address, socket_in, packet_data, shards, shard_index, socket_out,
                   sequence_number, timestamp, packet_duration, npackets>>

\* receive_packet returns another error: encode and run return Err(()).
RtpEncoderError ==
    /\ rtpPc = "receive"
    /\ rtpPc' = "failed"
    /\ receive_result' = "error"
    /\ UNCHANGED <<rtpFrame, client_address, socket_in, packet_data, shards, shard_index, socket_out,
                   sequence_number, timestamp, packet_duration, npackets>>

\* send_packet, first send_to: the data of the packet as it is.
RtpSendRaw ==
    /\ rtpPc = "raw"
    /\ socket_out' = Append(socket_out,
           [to |-> client_address, len |-> packet_size, rtp |-> FALSE,
            sequence_number |-> 0, timestamp |-> U32(0, 0)])
    /\ rtpPc' = "build"
    /\ UNCHANGED <<rtpFrame, client_address, socket_in, packet_data, shards, shard_index,
                   sequence_number, timestamp, packet_duration, npackets, receive_result>>

\* payload_size of send_packet.
payload_size(len) == (len + RTPA_DATA_SHARDS - 1) \div RTPA_DATA_SHARDS

Min(a, b) == IF a < b THEN a ELSE b

\* start and end of data shard i (from 0) in the packet.
ShardStart(data, i) == i * payload_size(Len(data))
ShardEnd(data, i) == Min((i + 1) * payload_size(Len(data)), Len(data))

\* end - start underflows, and the slice start..end is out of order, when
\* the shard starts beyond the end of the packet: both panic.
ShardPanics(data, i) == ShardEnd(data, i) < ShardStart(data, i)

\* vec![0u8; payload_size] with packet_data[start..end] copied to its front.
DataShard(data, i) ==
    [k \in 1..payload_size(Len(data)) |->
        IF k <= ShardEnd(data, i) - ShardStart(data, i)
        THEN data[ShardStart(data, i) + k]
        ELSE 0]

\* ReedSolomon::encode: the data shards are kept and the parity shards are
\* filled, here with the sums of the columns and of the weighted columns
\* in place of the Reed-Solomon code.
fec_encode(sh) ==
    [i \in 1..Len(sh) |->
        IF i <= RTPA_DATA_SHARDS THEN sh[i]
        ELSE [k \in 1..Len(sh[i]) |->
                 ((i - RTPA_DATA_SHARDS) * sh[1][k] + sh[2][k]
                      + (i - RTPA_DATA_SHARDS) * sh[3][k] + sh[4][k]) % 256]]

\* send_packet from payload_size to fec_encoder.encode: the shards, or a
\* panic while a data shard is cut out of the packet.
RtpBuildShards ==
    /\ rtpPc = "build"
    /\ IF \E i \in 0..(RTPA_DATA_SHARDS - 1) : ShardPanics(packet_data, i)
       THEN /\ rtpPc' = "panicked"
            /\ UNCHANGED shards
       ELSE /\ rtpPc' = "shard"
            /\ shards' = fec_encode(
                   [i \in 1..(RTPA_DATA_SHARDS + RTPA_FEC_SHARDS) |->
                       IF i <= RTPA_DATA_SHARDS
                       THEN DataShard(packet_data, i - 1)
                       ELSE [k \in 1..payload_size(packet_size) |-> 0]])
    /\ shard_index' = 0
    /\ UNCHANGED <<rtpFrame, client_address, socket_in, packet_data, socket_out,
                   sequence_number, timestamp, packet_duration, npackets, receive_result>>

\* send_packet, one turn of the loop over the shards: header and shard in
\* one datagram, sequence_number += 1, and after the last shard
\* timestamp += packet_duration. An addition that overflows panics in a
\* build with overflow checks and wraps in one without.
RtpSendShard ==
    /\ rtpPc = "shard"
    /\ socket_out' = Append(socket_out,
           [to |-> client_address, len |-> RtpHeaderSize + Len(shards[shard_index + 1]), rtp |-> TRUE,
            sequence_number |-> sequence_number, timestamp |-> timestamp])
    /\ LET last_shard == shard_index + 1 = RTPA_DATA_SHARDS + RTPA_FEC_SHARDS
           seq_overflow == sequence_number = MaxU16
           sum == AddU32(timestamp, packet_duration)
       IN  \/ /\ sequence_number' = (sequence_number + 1) % (MaxU16 + 1)
              /\ timestamp' = IF last_shard THEN sum.value ELSE timestamp
              /\ shard_index' = IF last_shard THEN 0 ELSE shard_index + 1
              /\ rtpPc' = IF last_shard THEN "receive" ELSE "shard"
           \/ /\ seq_overflow \/ (last_shard /\ sum.overflow)
              /\ rtpPc' = "panicked"
              /\ UNCHANGED <<sequence_number, timestamp, shard_index>>
    /\ UNCHANGED <<rtpFrame, client_address, socket_in, packet_data, shards, packet_duration, npackets, receive_result>>

\* A send_to of send_packet fails: send_packet, encode and run return Err.
RtpSendFail ==
    /\ rtpPc \in {"raw", "shard"}
    /\ rtpPc' = "failed"
    /\ UNCHANGED <<rtpFrame, client_address, socket_in, packet_data, shards, shard_index, socket_out,
                   sequence_number, timestamp, packet_duration, npackets, receive_result>>

\* sleep(10 ms), then the next turn of the loop of run.
RtpSleep ==
    /\ rtpPc = "sleep"
    /\ rtpPc' = "recv"
    /\ UNCHANGED <<rtpFrame, client_address, socket_in, packet_data, shards, shard_index, socket_out,
                   sequence_number, timestamp, packet_duration, npackets, receive_result>>

(***************************************************************************)
(* The session and its streams.                                            *)
(***************************************************************************)
vars == <<streamVars, pairVars, lockVars, rtpVars>>

Init == StreamInit /\ PairInit /\ LockInit /\ RtpInit

\* What the client of the session-level specifications sends.
SessionDatagrams == {MsgPing, MsgRequestIdr}

HandleNext ==
    \/ \E h \in HandleIds, h2 \in HandleIds : SessionClone(h, h2)
    \/ \E h \in HandleIds : SessionDrop(h)
    \/ \E h \in HandleIds : start_stream(h)
    \/ \E h \in HandleIds : stop_stream(h)
    \/ \E h \in HandleIds, k \in Keys : update_keys(h, k)

SessionNext ==
    \/ SessionStartStream
    \/ SessionStopStream
    \/ SessionUpdateKeys
    \/ SessionClosed

ControlNext ==
    \/ \E g \in Gens : CtlCreateHost(g)
    \/ \E g \in Gens : CtlCreateHostFail(g)
    \/ \E g \in Gens : CtlCancelAtStart(g)
    \/ \E g \in Gens : CtlPoll(g)
    \/ \E g \in Gens : CtlServiceFail(g)
    \/ \E g \in Gens : CtlServiceIdle(g)
    \/ \E g \in Gens : CtlReceive(g)
    \/ \E g \in Gens, second \in BOOLEAN : CtlCancelAtAwait(g, second)

MediaNext ==
    \/ \E g \in Gens : VideoObserveShutdown(g)
    \/ \E g \in Gens : AudioObserveShutdown(g)

Next ==
    \/ HandleNext
    \/ SessionNext
    \/ ControlNext
    \/ MediaNext
    \/ \E d \in SessionDatagrams : ClientSend(d)
    \/ Tick

Spec == Init /\ [][Next]_vars

(***************************************************************************)
(* One control stream against everything a client can send: a session     *)
(* with one handle that is started once.                                   *)
(***************************************************************************)
CtlSpecNext ==
    \/ \E h \in HandleIds : SessionDrop(h)
    \/ \E h \in HandleIds : StartStreamUpTo(h, 1)
    \/ \E h \in HandleIds : stop_stream(h)
    \/ \E h \in HandleIds, k \in Keys : update_keys(h, k)
    \/ SessionNext
    \/ ControlNext
    \/ MediaNext
    \/ \E d \in Datagrams : ClientSend(d)
    \/ Tick

CtlSpec == Init /\ [][CtlSpecNext]_vars

(***************************************************************************)
(* Fairness: the executor runs every spawned task that can take a step     *)
(* (the session loop, each control stream on its blocking worker, each     *)
(* video and audio stream), and time passes. The handles and the client    *)
(* are free to act or not. FairSpec is a session that is started once.     *)
(***************************************************************************)
CtlStep(g) ==
    \/ CtlCreateHost(g)
    \/ CtlCreateHostFail(g)
    \/ CtlCancelAtStart(g)
    \/ CtlPoll(g)
    \/ CtlServiceFail(g)
    \/ CtlServiceIdle(g)
    \/ CtlReceive(g)
    \/ \E second \in BOOLEAN : CtlCancelAtAwait(g, second)

Fairness ==
    /\ WF_vars(SessionNext)
    /\ WF_vars(Tick)
    /\ \A g \in Gens : WF_vars(CtlStep(g))
    /\ \A g \in Gens : WF_vars(VideoObserveShutdown(g))
    /\ \A g \in Gens : WF_vars(AudioObserveShutdown(g))

FairNext ==
    \/ \E h \in HandleIds, h2 \in HandleIds : SessionClone(h, h2)
    \/ \E h \in HandleIds : SessionDrop(h)
    \/ \E h \in HandleIds : StartStreamUpTo(h, 1)
    \/ \E h \in HandleIds : stop_stream(h)
    \/ \E h \in HandleIds, k \in Keys : update_keys(h, k)
    \/ SessionNext
    \/ ControlNext
    \/ MediaNext
    \/ \E d \in SessionDatagrams : ClientSend(d)
    \/ Tick

FairSpec == Init /\ [][FairNext]_vars /\ Fairness

(***************************************************************************)
(* The pairing handlers against a client that knows the salt and the       *)
(* certificate it sent, and the PINs a user may type.                      *)
(***************************************************************************)
\* The 16-byte challenge and secret of the client.
ClientNonce == 5
ClientSecret == 6
\* A client secret altered on the way.
AlteredSecret == 4

ClientChallenges ==
    {encrypt(Bytes(ClientNonce, 16), create_key(ClientSalt, pin)) : pin \in Pins}
ServerChallengeResponses ==
    {encrypt(Sha256(Cat(Cat(Bytes(n, 16), Bytes(ClientCertSignature, 256)),
                        Bytes(ClientSecret, 16))),
             create_key(ClientSalt, pin)) : n \in Nonces, pin \in Pins}
ClientPairingSecrets ==
    {Cat(Bytes(ClientSecret, 16), Bytes(ClientCertSignature, 256)),
     Cat(Bytes(AlteredSecret, 16), Bytes(ClientCertSignature, 256)),
     Bytes(ClientSecret, 16)}

PairNext ==
    \/ \E w \in Waiters, id \in UniqueIds :
          GetServerCertInsert(w, id, ClientSalt, ClientCertSignature)
    \/ \E w \in Waiters : GetServerCertWait(w)
    \/ \E w \in Waiters : GetServerCertRespond(w)
    \/ \E id \in UniqueIds, pin \in Pins : PinRequest(id, pin)
    \/ \E id \in UniqueIds, c \in ClientChallenges, s \in Nonces, n \in Nonces :
          ClientChallenge(id, c, Bytes(s, 16), Bytes(n, 16))
    \/ \E id \in UniqueIds, r \in ServerChallengeResponses :
          ServerChallengeResponse(id, r)
    \/ \E id \in UniqueIds, s \in ClientPairingSecrets : ClientPairingSecret(id, s)
    \/ \E id \in UniqueIds : PairChallenge(id)
    \/ \E id \in UniqueIds : Unpair(id)

PairSpec == Init /\ [][PairNext]_vars

(***************************************************************************)
(* Concurrent handler tasks over the clients map.                          *)
(***************************************************************************)
\* The requests of LockSpec: phase and decoded value.
LockRequests ==
    {<<"getservercert", NoneTerm>>, <<"pairchallenge", NoneTerm>>, <<"unpair", NoneTerm>>}
        \cup {<<"pin", Bytes(pin, 4)>> : pin \in Pins}
        \cup {<<"clientchallenge", c>> : c \in ClientChallenges}
        \cup {<<"serverchallengeresp", r>> : r \in ServerChallengeResponses}
        \cup {<<"clientpairingsecret", x>> : x \in ClientPairingSecrets}

LockNext ==
    \/ \E t \in Tasks, id \in UniqueIds, r \in LockRequests : TaskStart(t, r[1], id, r[2])
    \/ \E t \in Tasks : TaskLock(t)
    \/ \E t \in Tasks : TaskReject(t)
    \/ \E t \in Tasks : GetServerCertStore(t)
    \/ \E t \in Tasks : PinStore(t)
    \/ \E t \in Tasks, n \in Nonces : ChallengeStoreSecret(t, Bytes(n, 16))
    \/ \E t \in Tasks, n \in Nonces : ChallengeStoreChallenge(t, Bytes(n, 16))
    \/ \E t \in Tasks : ChallengeRespond(t)
    \/ \E t \in Tasks : ResponseStoreHash(t)
    \/ \E t \in Tasks : ResponseRespond(t)
    \/ \E t \in Tasks : PairingSecretRespond(t)
    \/ \E t \in Tasks : PairChallengeRespond(t)
    \/ \E t \in Tasks : UnpairRemove(t)

LockSpec == Init /\ [][LockNext]_vars

(***************************************************************************)
(* The RTP audio stream and its peers.                                     *)
(***************************************************************************)
RtpNext ==
    \/ \E config \in PacketDurations, rates \in RateLists : RtpNew(config, rates)
    \/ \E addr \in Addrs, payload \in AudioDatagrams : RtpClientSend(addr, payload)
    \/ RtpRecv
    \/ RtpRecvFail
    \/ RtpFrame
    \/ RtpFrameFail
    \/ \E data \in Packets : RtpReceivePacket(data)
    \/ RtpEncoderAgain
    \/ RtpEncoderEof
    \/ RtpEncoderError
    \/ RtpSendRaw
    \/ RtpBuildShards
    \/ RtpSendShard
    \/ RtpSendFail
    \/ RtpSleep

RtpSpec == Init /\ [][RtpNext]_vars

\* Every stream of every generation created so far has exited.
AllStopped ==
    \A g \in Gens :
        /\ ~CtlRunning(g)
        /\ ~MediaRunning(video, g)
        /\ ~MediaRunning(audio, g)

(***************************************************************************)
(* Properties.                                                             *)
(***************************************************************************)
\* The shutdown was triggered by a StopStream: the session loop is still
\* receiving and no control stream has ended, which are the only other
\* places that trigger it.
StopStreamProcessed ==
    /\ shutdown
    /\ sessPc = "recv"
    /\ \A g \in Gens : ctl[g].pc # "done"

\* C1: after the session loop has processed a StopStream, every stream the
\* session started (video, audio and control) eventually exits, whatever
\* the client sends.
StopStreamStopsEveryStream == StopStreamProcessed ~> AllStopped

ReceiveStep(g) ==
    /\ ctl[g].pc = "service"
    /\ netq # <<>>
    /\ netq' = Tail(netq)

\* C3: a dispatched Ping, plain or decrypted from an envelope, sets the
\* time left to the deadline to stream_timeout, and nothing but a Ping and
\* the passing of time changes it while the loop runs.
PingAloneResetsDeadline ==
    [][\A g \in Gens :
          LET h == HandlePacket(Head(netq), ctl[g].keys)
              ping == ReceiveStep(g) /\ h.out = "Dispatch" /\ h.msg = "Ping"
          IN  /\ (ping /\ CtlInLoop(g)')
                    => ctl'[g].remaining = StreamTimeout
              /\ (CtlInLoop(g) /\ CtlInLoop(g)' /\ ctl'[g].remaining # ctl[g].remaining)
                    => \/ ping
                       \/ ctl'[g].remaining = ctl[g].remaining - 1
      ]_vars

\* An encrypted Ping was dispatched and the deadline is a full
\* stream_timeout away.
EncryptedPingDispatched ==
    \E g \in Gens :
        /\ ctl[g].pc = "top"
        /\ ctl[g].ev = [out |-> "Dispatch", msg |-> "Ping", enc |-> TRUE]
        /\ ctl[g].remaining = StreamTimeout

\* Generation g goes on with its loop and nothing but the datagram is gone:
\* keys, deadline, shutdown and the media streams are as they were.
DatagramDropped(g) ==
    /\ ctl'[g].pc = "top"
    /\ ctl'[g].keys = ctl[g].keys
    /\ ctl'[g].remaining = ctl[g].remaining
    /\ shutdown' = shutdown
    /\ UNCHANGED mediaVars

\* C4: a datagram that does not parse (too short, a declared length that
\* is not the length of the rest, an unknown type) is dropped: the loop
\* goes on, the shutdown is not triggered, deadline and keys stay.
MalformedDatagramDropped ==
    [][\A g \in Gens :
          (ReceiveStep(g) /\ from_bytes(Head(netq)).kind = "Err")
              => DatagramDropped(g)
      ]_vars

\* C5: an envelope that fails to decrypt, or whose plaintext is not a
\* control message, is dropped without any dispatch and the loop goes on.
UndecodableEnvelopeDropped ==
    [][\A g \in Gens :
          LET h == HandlePacket(Head(netq), ctl[g].keys)
          IN  (/\ ReceiveStep(g)
               /\ h.enc
               /\ h.out \in {"DecryptErr", "InnerParseErr", "Panic"})
                  => DatagramDropped(g)
      ]_vars

\* C6: the key of an UpdateKeys command becomes the loop's key when the
\* command is consumed and stays until the next one is; every envelope is
\* decrypted with the loop's key, also one that was queued before the
\* rotation; a StartB starts the audio stream with that key.
RotatedKeyDecrypts ==
    [][\A g \in Gens :
          LET consumed == ctl[g].pc = "top" /\ ctl'[g].pc = "service" /\ ctl[g].q # <<>>
              m == from_bytes(Head(netq))
              h == HandlePacket(Head(netq), ctl[g].keys)
          IN  /\ consumed => /\ ctl'[g].keys = Head(ctl[g].q).keys
                             /\ ctl'[g].q = Tail(ctl[g].q)
              /\ (CtlRunning(g) /\ CtlRunning(g)' /\ ~consumed)
                    => /\ ctl'[g].keys = ctl[g].keys
                       /\ \/ ctl'[g].q = ctl[g].q
                          \/ \E k \in Keys : ctl'[g].q = Append(ctl[g].q, UpdateKeysCmd(k))
              /\ (ReceiveStep(g) /\ m.kind = "Encrypted" /\ CtlInLoop(g)')
                    => (ctl'[g].ev.out = "Dispatch"
                          <=> /\ decrypt_aead(ctl[g].keys,
                                              InitializationVector0(m.sequence_number),
                                              m.payload, m.tag).ok
                              /\ h.out = "Dispatch")
              /\ (ReceiveStep(g) /\ h.out = "Dispatch" /\ h.msg = "StartB"
                      /\ MediaRunning(audio, g) /\ ctl'[g].exit # "cancelled")
                    => (audio'[g] = "started" /\ audioKeys'[g] = ctl[g].keys)
      ]_vars

\* After a rotation away from the initial key, an encrypted StartB was
\* decrypted and the audio stream was started with the rotated key.
RotatedKeyUsed ==
    \E g \in Gens :
        /\ ctl[g].pc = "top"
        /\ ctl[g].keys # InitialKey
        /\ ctl[g].ev = [out |-> "Dispatch", msg |-> "StartB", enc |-> TRUE]
        /\ audio[g] = "started"
        /\ audioKeys[g] = ctl[g].keys

\* C7: a session has at most one active video stream, one active audio
\* stream and one active control stream.
AtMostOneStreamOfEachKind ==
    /\ Cardinality({g \in Gens : CtlRunning(g)}) <= 1
    /\ Cardinality({g \in Gens : MediaRunning(video, g)}) <= 1
    /\ Cardinality({g \in Gens : MediaRunning(audio, g)}) <= 1

\* C8: on UpdateKeys(k) the session loop stores k in its session context
\* and forwards k to the audio and the control stream it holds; when it
\* holds no audio or no control stream nothing is stored or forwarded; in
\* both cases the loop goes on with the next command.
UpdateKeysStoredAndForwarded ==
    [][(/\ sessPc = "recv"
        /\ cmdq # <<>>
        /\ Head(cmdq).op = "UpdateKeys"
        /\ cmdq' = Tail(cmdq))
          => LET k == Head(cmdq).keys
                 a == audio_stream
                 c == control_stream
             IN  /\ sessPc' = "recv"
                 /\ IF a # 0 /\ c # 0
                    THEN /\ sessKeys' = k
                         /\ MediaRunning(audio, a) => audioKeys'[a] = k
                         /\ ctl[c].pc # "done"
                               => ctl'[c].q = Append(ctl[c].q, UpdateKeysCmd(k))
                    ELSE UNCHANGED <<sessKeys, audioKeys, ctl>>
      ]_vars

\* A key other than the initial one is stored, is with the audio stream and
\* waits in the command channel of the control stream.
UpdateKeysForwarded ==
    \E g \in Gens :
        /\ control_stream = g
        /\ sessKeys # InitialKey
        /\ audioKeys[g] = sessKeys
        /\ ctl[g].q # <<>>
        /\ ctl[g].q[Len(ctl[g].q)].keys = sessKeys

\* C9: once the command queue is closed (every handle dropped, the loop
\* ended) the shutdown is triggered and all streams eventually stop.
QueueClosureStopsEveryStream ==
    (sessPc = "done") ~> (shutdown /\ AllStopped)

\* The session loop has ended, everything has stopped, and a control stream
\* ended because its command channel was disconnected.
ControlStreamDisconnected ==
    /\ sessPc = "done"
    /\ handles = {}
    /\ AllStopped
    /\ \E g \in Gens : ctl[g].exit = "disconnected"

\* C10: the record of a uniqueid moves only forward: once the challenge is
\* issued for it, no request but /unpair takes the record back or replaces
\* the key that /pin set.
PinKeptOnceChallengeIssued ==
    [][\A id \in UniqueIds :
          (/\ clients[id].present
           /\ clients[id].server_challenge # NoneTerm
           /\ last'.phase # "unpair")
              => (clients'[id].present /\ clients'[id].key = clients[id].key)
      ]_vars

\* The step answers a request of this phase for this uniqueid.
Answers(phase, id) == last'.phase = phase /\ last'.id = id

\* The step answers 400 and leaves the clients map as it was.
Rejected == last'.status = 400 /\ clients' = clients

\* C11: a request whose prerequisite state is missing (clientchallenge
\* before /pin, serverchallengeresp without a server secret,
\* clientpairingsecret without a server challenge or a client hash) is
\* answered 400 and leaves the record unchanged.
MissingPrerequisiteRejected ==
    [][\A id \in UniqueIds :
          clients[id].present =>
              /\ (Answers("clientchallenge", id) /\ clients[id].key = NoneTerm)
                    => Rejected
              /\ (Answers("serverchallengeresp", id)
                      /\ clients[id].server_secret = NoneTerm)
                    => Rejected
              /\ (Answers("clientpairingsecret", id)
                      /\ (\/ clients[id].server_challenge = NoneTerm
                          \/ clients[id].client_hash = NoneTerm))
                    => Rejected
      ]_vars

\* C12: a clientpairingsecret whose decoded value is not 272 bytes long is
\* answered 400 and leaves the record and the map as they were.
WrongSizeSecretRejected ==
    [][\A id \in UniqueIds :
          (/\ clients[id].present
           /\ Answers("clientpairingsecret", id)
           /\ last'.arg.len # 272)
              => Rejected
      ]_vars

\* SHA-256(server_challenge || client_cert.signature || client_secret) of a
\* 272-byte pairing secret equals the stored client_hash.
HashMatches(client, client_pairing_secret) ==
    Sha256(Cat(Cat(client.server_challenge, Bytes(client.pem, 256)),
               client_pairing_secret.a)) = client.client_hash

\* C13: clientpairingsecret succeeds only when the hash of the server
\* challenge, the client certificate's signature and the client secret is
\* the stored client_hash; on a mismatch it answers 400, the record does not
\* become verified, and a pairchallenge for a record that is not verified is
\* not accepted.
HashMismatchRejected ==
    [][\A id \in UniqueIds :
          clients[id].present =>
              /\ (Answers("clientpairingsecret", id) /\ last'.status = 200)
                    => HashMatches(clients[id], last'.arg)
              /\ (/\ Answers("clientpairingsecret", id)
                  /\ last'.arg.len = 272
                  /\ clients[id].server_challenge # NoneTerm
                  /\ clients[id].client_hash # NoneTerm
                  /\ ~HashMatches(clients[id], last'.arg))
                    => (Rejected /\ clients'[id].verified = clients[id].verified)
              /\ (Answers("pairchallenge", id) /\ ~clients[id].verified)
                    => last'.status # 200
      ]_vars

\* C14: pairchallenge answers OK exactly for a uniqueid whose record exists
\* and was verified by a successful clientpairingsecret, and never changes
\* the map.
PairChallengeNeedsVerified ==
    [][\A id \in UniqueIds :
          Answers("pairchallenge", id)
              => /\ last'.status = 200
                      <=> (clients[id].present /\ clients[id].verified)
                 /\ clients' = clients
      ]_vars

PairFairness ==
    /\ \A w \in Waiters : WF_vars(GetServerCertWait(w))
    /\ \A w \in Waiters : WF_vars(GetServerCertRespond(w))

PairFairSpec == Init /\ [][PairNext]_vars /\ PairFairness

\* C16: a get_server_cert is woken only by an accepted /pin for its
\* uniqueid, and once a /pin is accepted every get_server_cert that is
\* waiting on that uniqueid (its record inserted, answered or not yet
\* suspended, replaced or not) is eventually woken.
PinWakesEveryWaiter ==
    /\ [][\A w \in Waiters :
             (waiters[w].pc # "woken" /\ waiters'[w].pc = "woken")
                 => (Answers("pin", waiters[w].id) /\ last'.status = 200)
         ]_vars
    /\ \A w \in Waiters, id \in UniqueIds :
          (/\ last.phase = "pin"
           /\ last.id = id
           /\ last.status = 200
           /\ waiters[w].id = id
           /\ waiters[w].pc \in {"inserted", "waiting"})
              ~> (waiters[w].pc = "woken")

\* The pairing secret of the cooperating client.
HonestPairingSecret == Cat(Bytes(ClientSecret, 16), Bytes(ClientCertSignature, 256))

\* The serverchallengeresp value the cooperating client computes for this
\* record from the key and the server challenge it was sent.
HonestChallengeResponse(client) ==
    encrypt(Sha256(Cat(Cat(client.server_challenge, Bytes(client.pem, 256)),
                       Bytes(ClientSecret, 16))),
            client.key)

\* C17: the requests of a cooperating client, sent in order with values
\* computed from the key and the server's answers, all succeed: the
\* getservercert whose record got its PIN is answered, clientchallenge and
\* serverchallengeresp answer 200, and clientpairingsecret answers 200 and
\* leaves the record verified.
CooperatingClientIsVerified ==
    /\ [][\A id \in UniqueIds :
             clients[id].present =>
                 /\ (Answers("clientchallenge", id) /\ clients[id].key # NoneTerm)
                       => last'.status = 200
                 /\ (Answers("serverchallengeresp", id)
                         /\ clients[id].server_secret # NoneTerm)
                       => last'.status = 200
                 /\ (/\ Answers("clientpairingsecret", id)
                     /\ last'.arg = HonestPairingSecret
                     /\ clients[id].server_challenge # NoneTerm
                     /\ clients[id].client_hash
                            = decrypt(HonestChallengeResponse(clients[id]), clients[id].key))
                       => (last'.status = 200 /\ clients'[id].verified)
         ]_vars
    /\ \A w \in Waiters :
          (/\ waiters[w].pc \in {"inserted", "waiting"}
           /\ waiters[w].current
           /\ clients[waiters[w].id].key # NoneTerm)
              ~> (waiters[w].pc = "woken" \/ ~waiters[w].current)


LastShardSent ==
    /\ rtpPc = "shard"
    /\ shard_index + 1 = RTPA_DATA_SHARDS + RTPA_FEC_SHARDS
    /\ socket_out' # socket_out

\* C19: for an encoded packet of length L the audio stream emits exactly
\* K + M = 6 datagrams, each of length ceil(L/4) + RTP header size, and no
\* other datagram: when the last shard of a packet has been sent, the
\* datagrams sent for the packet are those six.
SixDatagramsPerPacket ==
    [][LastShardSent =>
          LET ceil == CHOOSE n \in 0..packet_size :
                          4 * n >= packet_size /\ 4 * (n - 1) < packet_size
          IN  /\ Len(socket_out') = 6
              /\ \A i \in 1..Len(socket_out') :
                     socket_out'[i].len = ceil + RtpHeaderSize]_vars

\* C20: no datagram is sent before a PING was received, every datagram goes
\* to the sender of the most recently received PING, and a datagram that is
\* not exactly "PING" leaves the address alone. The address is None at
\* first; it changes only when a received datagram is "PING", to its sender,
\* and every such datagram changes it; each datagram sent goes to the
\* address, which is then not None.
DatagramsFollowLatestPing ==
    /\ client_address = 0
    /\ [][/\ client_address' # client_address
               => /\ rtpPc = "recv"
                  /\ socket_in # <<>>
                  /\ Head(socket_in).payload = <<"P", "I", "N", "G">>
          /\ (rtpPc = "recv" /\ Len(socket_in') < Len(socket_in)
                  /\ Head(socket_in).payload = <<"P", "I", "N", "G">>)
               => client_address' = Head(socket_in).from
          /\ (socket_out' # socket_out /\ socket_out' # <<>>)
               => /\ client_address # 0
                  /\ socket_out'[Len(socket_out')].to = client_address]_vars

\* Datagrams are being sent to the sender of a PING while a datagram that is
\* not "PING", from another address, waits to be received.
OtherDatagramWhileSending ==
    /\ client_address # 0
    /\ socket_out # <<>>
    /\ socket_out[Len(socket_out)].to = client_address
    /\ rtpPc = "recv"
    /\ socket_in # <<>>
    /\ Head(socket_in).payload # <<"P", "I", "N", "G">>
    /\ Head(socket_in).from # client_address


\* ceil(len / 4), by its definition.
CeilQuarter(len) == CHOOSE n \in 0..len : 4 * n >= len /\ 4 * (n - 1) < len

\* C21: for every packet of length L >= 1 packetization completes and
\* builds 4 data shards of length S = ceil(L/4), shard i holding the bytes
\* [i*S, min((i+1)*S, L)) of the packet padded with zeros, then 2 parity
\* shards of length S; the data shards concatenated and cut to L bytes are
\* the packet.
PacketizationRoundTrip ==
    [][(rtpPc = "build" /\ rtpPc' # "build") =>
          LET L == Len(packet_data)
              S == CeilQuarter(L)
              joined == shards'[1] \o shards'[2] \o shards'[3] \o shards'[4]
          IN  /\ rtpPc' = "shard"
              /\ Len(shards') = 6
              /\ \A i \in 1..6 : Len(shards'[i]) = S
              /\ \A i \in 0..3 : \A k \in 1..S :
                     shards'[i + 1][k] =
                         IF i * S + k <= L THEN packet_data[i * S + k] ELSE 0
              /\ SubSeq(joined, 1, L) = packet_data]_vars


\* The step sends one shard datagram.
ShardSent == rtpPc = "shard" /\ socket_out' # socket_out

\* The datagrams of the shards among those sent for the current packet.
ShardDatagrams(out) == SelectSeq(out, LAMBDA d : d.rtp)

\* C22: the sequence number increases by exactly 1 for each shard datagram
\* sent and the timestamp by packet_duration exactly once per packet, after
\* its last shard: the six shards of a packet carry one timestamp and six
\* consecutive sequence numbers.
ShardNumbering ==
    [][ShardSent =>
          LET sent == ShardDatagrams(socket_out')
              sum == AddU32(timestamp, packet_duration)
          IN  /\ sent[Len(sent)].sequence_number = sequence_number
              /\ sent[Len(sent)].timestamp = timestamp
              /\ sequence_number' = sequence_number + 1
              /\ IF LastShardSent
                 THEN /\ ~sum.overflow
                      /\ timestamp' = sum.value
                      /\ Len(sent) = 6
                      /\ \A i \in 1..6 :
                             /\ sent[i].timestamp = sent[1].timestamp
                             /\ sent[i].sequence_number = sent[1].sequence_number + i - 1
                 ELSE timestamp' = timestamp]_vars

\* a <= b for u32 values.
LeqU32(a, b) == a[1] < b[1] \/ (a[1] = b[1] /\ a[2] <= b[2])

\* C23: the sequence numbers and the timestamps written to the socket are
\* monotonic and the stream keeps sending when a counter reaches its
\* maximum: sending a shard never ends the stream with a panic, and it
\* leaves a larger sequence number and a timestamp that is not smaller.
CountersMonotonic ==
    [][ShardSent =>
          /\ rtpPc' # "panicked"
          /\ sequence_number' > sequence_number
          /\ LeqU32(timestamp, timestamp')]_vars


\* receive_packet has just returned result.
ReceiveResult(result) ==
    rtpPc = "receive" /\ rtpPc' # "receive" /\ receive_result' = result

\* C24: on "need more input" the tick ends without error and the loop
\* retries on the next tick; on "end of stream" run ends with Ok and nothing
\* more is encoded or sent; on another encoder error run returns Err.
EncoderResultsHandled ==
    [][/\ ReceiveResult("again") => rtpPc' = "sleep"
       /\ (rtpPc = "sleep" /\ rtpPc' # "sleep") => rtpPc' = "recv"
       /\ ReceiveResult("eof") => rtpPc' = "returned"
       /\ receive_result = "eof"
            => /\ rtpPc' = rtpPc
               /\ socket_out' = socket_out
               /\ receive_result' = "eof"
       /\ ReceiveResult("error") => rtpPc' = "failed"]_vars


\* The buffers that from_bytes is given when generation g handles the
\* datagram at the head of the queue: the datagram and, when it is an
\* envelope that decrypts, its plaintext.
ParsedBuffers(g) ==
    LET m == from_bytes(Head(netq))
        d == decrypt_aead(ctl[g].keys, InitializationVector0(m.sequence_number),
                          m.payload, m.tag)
    IN  {Head(netq)} \cup (IF m.kind = "Encrypted" /\ d.ok THEN {d.data} ELSE {})

\* The buffer has the header of an InputData message: the type, and a
\* length field that is the length of the rest.
InputDataHeader(buffer) ==
    /\ Len(buffer) >= 4
    /\ buffer[1] + 256 * buffer[2] = T_InputData
    /\ buffer[3] + 256 * buffer[4] = Len(buffer) - 4

\* C25: an InputData message parses to InputData(payload) exactly when its
\* 32-bit big-endian length prefix is the number of bytes after the prefix;
\* in every other case, a message with fewer than 4 bytes after the header
\* included, from_bytes returns an error and does not panic.
InputDataParsedOrRejected ==
    [][\A g \in Gens :
          ReceiveStep(g) =>
              \A buffer \in ParsedBuffers(g) :
                  InputDataHeader(buffer) =>
                      LET rest == SubSeq(buffer, 5, Len(buffer))
                          fits == /\ Len(rest) >= 4
                                  /\ 16777216 * rest[1] + 65536 * rest[2]
                                         + 256 * rest[3] + rest[4] = Len(rest) - 4
                      IN  IF fits
                          THEN from_bytes(buffer) =
                                   [kind |-> "InputData",
                                    payload |-> SubSeq(rest, 5, Len(rest))]
                          ELSE from_bytes(buffer).kind = "Err"
      ]_vars


\* C26: the dispatch never gets an Encrypted message: an envelope whose
\* plaintext is again a well-formed envelope is a protocol error, the
\* datagram is dropped and the control stream goes on.
NestedEnvelopeRejected ==
    [][\A g \in Gens :
          (/\ ReceiveStep(g)
           /\ \E buffer \in ParsedBuffers(g) \ {Head(netq)} :
                  from_bytes(buffer).kind = "Encrypted")
              => DatagramDropped(g)
      ]_vars


\* C27: select_sample_rate returns 44100 when the codec reports no list of
\* sample rates, otherwise one of the rates of the list, and never 0.
SampleRateSelected ==
    [][(rtpPc = "none" /\ rtpPc' # "none") =>
          /\ supported_samplerates' = NullList => sample_rate' = 44100
          /\ supported_samplerates' # NullList
                => \E i \in 1..Len(supported_samplerates') :
                       sample_rate' = supported_samplerates'[i]
          /\ sample_rate' # 0]_vars


\* C28: a session can stream again after being stopped. When a StartStream
\* after the first is processed and every earlier control stream is still
\* running or was ended by cancellation only (no timeout, error or closed
\* queue: the shutdown, if any, came from StopStream), the new streams get
\* a shutdown handle that has not been triggered.
RestartGetsFreshShutdown ==
    [][(/\ gen >= 1
        /\ gen' = gen + 1
        /\ \A g \in 1..gen : ctl[g].exit \in {"", "cancelled"})
          => ~shutdown'
      ]_vars


\* C29: the keys a Session handle reports agree with the keys of the
\* session loop: once the loop has processed UpdateKeys(k) with both
\* streams present, get_context().keys of every handle is k.
HandleKeysFollowLoop ==
    [][(/\ sessPc = "recv"
        /\ cmdq # <<>>
        /\ Head(cmdq).op = "UpdateKeys"
        /\ cmdq' = Tail(cmdq)
        /\ CanUpdateKeys(audio_stream, control_stream))
          => /\ sessKeys' = Head(cmdq).keys
             /\ \A h \in handles' : hkeys'[h] = Head(cmdq).keys
      ]_vars

====
